---- MODULE Spec2Model ----
(***************************************************************************)
(* A model of utils/TableGen/SemanticsEmitter.cpp: the linearization of    *)
(* instruction patterns (LinearSemantics), the per-instruction acceptance  *)
(* test (SemanticsEmitter::parseInstSemantics), the two passes of the      *)
(* constructor and the table layout computed by SemanticsEmitter::run.     *)
(*                                                                         *)
(* Conventions.                                                            *)
(*  - C++ vectors are sequences; C++ positions are 0-based and are kept    *)
(*    0-based as numbers (position p of a vector V is V[p + 1]).           *)
(*  - ~0U (2^32 - 1) is written UINT_MAX and represented by -1, its        *)
(*    two's complement representative; no other quantity of the model is   *)
(*    negative except where stated.                                        *)
(*  - assert / llvm_unreachable / PrintFatalError abort generation: the    *)
(*    record L carries a field Fatal, "" while generation is running, and  *)
(*    every operation is the identity once Fatal is set.                   *)
(*  - MicroOp operands are the strings the code builds.  utostr'd numbers  *)
(*    are kept as numbers, symbolic names as strings.                      *)
(***************************************************************************)
EXTENDS Integers, Sequences, FiniteSets, TLC

(***************************************************************************)
(* Widths of the integer types involved.                                   *)
(***************************************************************************)
UINT_MAX == -1
UCHAR_MOD == 256
UINT16_MOD == 65536

(***************************************************************************)
(* MVT::SimpleValueType, restricted to the values the code distinguishes:  *)
(* isVoid, Untyped, a concrete value type, and Other (the enumerator with  *)
(* value 0, which is what std::vector::resize value-initializes to).       *)
(***************************************************************************)
MVT == {"isVoid", "Untyped", "i32", "Other"}

(***************************************************************************)
(* CGI.Operands: the formal operands of an instruction.  Rec is the        *)
(* operand record's class, RecName its name.                               *)
(***************************************************************************)
CGIOperands ==
  << [Name |-> "dst", Rec |-> "RegisterClass", RecName |-> "GPR",
      OperandType |-> "OPERAND_REGISTER", MIOperandNo |-> 0],
     [Name |-> "a", Rec |-> "RegisterClass", RecName |-> "GPR",
      OperandType |-> "OPERAND_REGISTER", MIOperandNo |-> 1],
     [Name |-> "b", Rec |-> "RegisterOperand", RecName |-> "GPROp",
      OperandType |-> "OPERAND_REGISTER", MIOperandNo |-> 2],
     [Name |-> "imm", Rec |-> "Operand", RecName |-> "i32imm",
      OperandType |-> "OPERAND_IMMEDIATE", MIOperandNo |-> 3],
     [Name |-> "addr", Rec |-> "Operand", RecName |-> "i32mem",
      OperandType |-> "OPERAND_MEMORY", MIOperandNo |-> 4] >>

Namespace == "X86"

(* const CGIOperandList::OperandInfo *getNamedOperand(StringRef Name):     *)
(* the position in CGI.Operands of the first operand called Name, 0 for    *)
(* nullptr.                                                                *)
getNamedOperand(Name) ==
  IF Name = "" THEN 0
  ELSE IF \E k \in 1..Len(CGIOperands) : CGIOperands[k].Name = Name
       THEN CHOOSE k \in 1..Len(CGIOperands) :
              /\ CGIOperands[k].Name = Name
              /\ \A j \in 1..(k - 1) : CGIOperands[j].Name # Name
       ELSE 0

(* utostr(uint64_t): the decimal string of X.  A negative int argument is  *)
(* converted to uint64_t first: -k becomes 2^64 - k, written <<"2^64", -k>>.*)
utostr(X) == IF X >= 0 THEN X ELSE <<"2^64", X>>

(* struct LSResult: DefNo is an unsigned char.                             *)
LSResult(DefNo, VT) == [DefNo |-> DefNo % UCHAR_MOD, VT |-> VT]

(* LSNode(const TreePatternNode &TPN): the types are copied from the node. *)
LSNode(TPN) == [Opcode |-> "", Types |-> TPN.Types, Operands |-> <<>>]

addOperand(NS, Op) == [NS EXCEPT !.Operands = Append(@, Op)]

(* Number of entries of a type list that are not MVT::isVoid.              *)
NumNonVoid(Types) == Cardinality({k \in 1..Len(Types) : Types[k] # "isVoid"})

(* static void abort: record the first fatal error.                        *)
Abort(L, Why) == IF L.Fatal = "" THEN [L EXCEPT !.Fatal = Why] ELSE L

(* The value a flatten function returns after adding an op: L.Returned     *)
(* keeps, for the op just added (the last of Semantics), the LSResults     *)
(* handed to the caller.                                                   *)
Return(L, R) ==
  IF L.Fatal # "" THEN L
  ELSE [L EXCEPT !.Returned =
                    Append(@, [SemaIdx |-> Len(L.Semantics) - 1, R |-> R])]

(* void LinearSemantics::addSemantics(const LSNode &NS)                    *)
addSemantics(L, NS) ==
  IF L.Fatal # "" THEN L
  ELSE
    LET FirstDefNo == L.CurDefNo
        NewDefNo == L.CurDefNo + NumNonVoid(NS.Types)
        Untyped == \E k \in 1..Len(NS.Types) : NS.Types[k] = "Untyped"
    IN [L EXCEPT !.CurDefNo = NewDefNo,
                 !.HasIntrinsic = @ \/ Untyped,
                 !.LastDefNo = IF FirstDefNo # NewDefNo THEN FirstDefNo ELSE @,
                 !.LastDefSemaIdx =
                    IF FirstDefNo # NewDefNo THEN Len(L.Semantics) ELSE @,
                 !.Semantics = Append(@, NS)]

(* A linearizer whose memo never answers.                                  *)
OperandNeverFound(L, Name) == FALSE

(* OperandByName.find(OpInfo->Name) != OperandByName.end()                 *)
OperandFound(L, Name) == Name \in DOMAIN L.OperandByName

(* LSResult LinearSemantics::flattenOperand(TPN, OpInfo).  Returns the new *)
(* state and the list holding the one result.                              *)
flattenOperand(L, TPN, OpInfo) ==
  IF L.Fatal # "" THEN [L |-> L, R |-> <<>>]
  ELSE IF Len(TPN.Types) # 1
  THEN [L |-> Abort(L, "assert: operand node has one type"), R |-> <<>>]
  ELSE
    LET Info == CGIOperands[OpInfo]
        OpRec == IF Info.Rec = "RegisterOperand" THEN "RegisterClass"
                 ELSE Info.Rec
        Op0 == LSNode(TPN)
    IN IF OpRec = "Operand" /\ Info.OperandType # "OPERAND_IMMEDIATE"
          /\ OperandFound(L, Info.Name)
       THEN \* already found: no need to generate the operation again
            [L |-> L,
             R |-> <<LSResult(L.OperandByName[Info.Name], Op0.Types[1])>>]
       ELSE IF OpRec \notin {"Operand", "RegisterClass"}
       THEN [L |-> Abort(L, "unreachable: unknown operand type"), R |-> <<>>]
       ELSE
         LET Custom == OpRec = "Operand"
                       /\ Info.OperandType # "OPERAND_IMMEDIATE"
             Op1 == IF OpRec = "RegisterClass"
                    THEN [Op0 EXCEPT !.Opcode = "DCINS::GET_RC"]
                    ELSE IF ~Custom
                    THEN [Op0 EXCEPT !.Opcode = "DCINS::GET_IMMEDIATE"]
                    ELSE addOperand([Op0 EXCEPT !.Opcode = "DCINS::CUSTOM_OP"],
                                    <<Namespace, "OpTypes", Info.RecName>>)
             L1 == IF Custom
                   THEN [L EXCEPT !.OperandByName =
                                     (Info.Name :> L.CurDefNo) @@ @]
                   ELSE L
             R == LSResult(L1.CurDefNo, Op1.Types[1])
         IN [L |-> Return(addSemantics(L1, addOperand(Op1,
                                                 utostr(Info.MIOperandNo))),
                          <<R>>),
             R |-> <<R>>]

(***************************************************************************)
(* std::map<uint64_t, uint16_t> ConstantIdx.  The map is kept as a record: *)
(* the entries v |-> v for v in 1 .. Dense (constants interned in          *)
(* increasing order by earlier instructions), and the function Rest for    *)
(* all other entries.  Rest never holds a key of 1 .. Dense.               *)
(***************************************************************************)
MapCount(M, v) == v \in 1..M.Dense \/ v \in DOMAIN M.Rest
MapAt(M, v) == IF v \in DOMAIN M.Rest THEN M.Rest[v] ELSE v
MapSize(M) == M.Dense + Cardinality(DOMAIN M.Rest)
MapKeys(M) == (1..M.Dense) \cup DOMAIN M.Rest
(* M[v] = x, for a key v that is not one of 1 .. Dense                     *)
MapAssign(M, v, x) == [M EXCEPT !.Rest = (v :> x) @@ @]

(* LSResult LinearSemantics::flattenLeaf(TPN).  LeafValue is an IntInit    *)
(* [int |-> v] or a DefInit [def |-> name, class |-> record class].        *)
flattenLeaf(L, TPN) ==
  IF L.Fatal # "" THEN [L |-> L, R |-> <<>>]
  ELSE IF Len(TPN.Types) # 1
  THEN [L |-> Abort(L, "assert: leaf node has one type"), R |-> <<>>]
  ELSE
    LET Op0 == LSNode(TPN) IN
    IF "int" \in DOMAIN TPN.LeafValue
    THEN
      LET v == TPN.LeafValue.int
          \* uint16_t &Idx = Target.ConstantIdx[v]: inserts 0 when absent
          Old == IF MapCount(L.ConstantIdx, v) THEN MapAt(L.ConstantIdx, v)
                 ELSE 0
          NewCur == IF Old = 0 THEN (L.CurConstantIdx + 1) % UINT16_MOD
                    ELSE L.CurConstantIdx
          Idx == IF Old = 0 THEN NewCur ELSE Old
          L1 == IF Old = 0
                THEN [L EXCEPT !.ConstantIdx = MapAssign(@, v, Idx),
                               !.CurConstantIdx = NewCur]
                ELSE L
          Op1 == addOperand([Op0 EXCEPT !.Opcode = "DCINS::GET_CONSTANT"],
                            utostr(Idx - 1))
          R == LSResult(L1.CurDefNo, Op1.Types[1])
      IN [L |-> Return(addSemantics(L1, Op1), <<R>>), R |-> <<R>>]
    ELSE IF TPN.LeafValue.class = "Register"
    THEN
      LET Op1 == addOperand([Op0 EXCEPT !.Opcode = "DCINS::GET_REG"],
                            <<Namespace, TPN.LeafValue.def>>)
          R == LSResult(L.CurDefNo, Op1.Types[1])
      IN [L |-> Return(addSemantics(L, Op1), <<R>>), R |-> <<R>>]
    ELSE [L |-> Abort(L, "unreachable: unknown operand type"), R |-> <<>>]

(***************************************************************************)
(* The operator records of the pattern database: the record class, and for *)
(* SDNodes the SDNodeInfo (enum name, declared number of results), for     *)
(* ComplexPatterns the select function name, as a sequence of characters.  *)
(***************************************************************************)
OperatorInfo ==
  [ add |-> [class |-> "SDNode", EnumName |-> "ISD::ADD", NumResults |-> 1,
             SelectFunc |-> <<>>],
    store |-> [class |-> "SDNode", EnumName |-> "ISD::STORE", NumResults |-> 0,
               SelectFunc |-> <<>>],
    umul_lohi |-> [class |-> "SDNode", EnumName |-> "ISD::UMUL_LOHI",
                   NumResults |-> 2, SelectFunc |-> <<>>],
    X86add_flag |-> [class |-> "SDNode", EnumName |-> "X86ISD::ADD",
                     NumResults |-> 2, SelectFunc |-> <<>>],
    X86umul |-> [class |-> "SDNode", EnumName |-> "X86ISD::UMUL",
                 NumResults |-> 3, SelectFunc |-> <<>>],
    addr |-> [class |-> "ComplexPattern", EnumName |-> "", NumResults |-> 1,
              SelectFunc |-> <<"S","e","l","e","c","t","A","d","d","r">>],
    lea_addr |-> [class |-> "ComplexPattern", EnumName |-> "", NumResults |-> 1,
              SelectFunc |-> <<"s","e","l","e","c","t","L","e","a","<","8",">">>],
    set |-> [class |-> "set", EnumName |-> "", NumResults |-> 0,
             SelectFunc |-> <<>>],
    implicit |-> [class |-> "implicit", EnumName |-> "", NumResults |-> 0,
                  SelectFunc |-> <<>>] ]

(* SemanticsTarget::SDNodeEquiv, as filled by SemanticsTarget's            *)
(* constructor: TargetSpecific |-> TargetIndependent.                      *)
SDNodeEquiv == [X86add_flag |-> "add", X86umul |-> "umul_lohi"]

(* StringRef::startswith, on character sequences.                          *)
startswith(F, Prefix) ==
  /\ Len(F) >= Len(Prefix)
  /\ \A k \in 1..Len(Prefix) : F[k] = Prefix[k]

(* static std::string sanitizeSelectFuncToEnumVal(CP, CGP): "" (as <<>>)   *)
(* with Ok = FALSE when PrintFatalError is called.                         *)
sanitizeSelectFuncToEnumVal(CP) ==
  LET F == OperatorInfo[CP].SelectFunc IN
  IF ~startswith(F, <<"s","e","l","e","c","t">>)
     /\ ~startswith(F, <<"S","e","l","e","c","t">>)
  THEN [Ok |-> FALSE, SF |-> <<>>]
  ELSE
    LET D == SubSeq(F, 7, Len(F))
        Found == \E k \in 1..Len(D) : D[k] = "<"
        Pos == CHOOSE k \in 1..Len(D) :
                 D[k] = "<" /\ \A j \in 1..(k - 1) : D[j] # "<"
    IN [Ok |-> TRUE,
        SF |-> IF Found
               THEN SubSeq([D EXCEPT ![Pos] = "_"], 1, Len(D) - 1)
               ELSE D]

(* unsigned a - b for 0 <= a, b < 2^31: the value is Wrap * 2^32 + Low,    *)
(* where Low is negative exactly when the subtraction wrapped.             *)
UnsignedSub(a, b) == [Wrap |-> IF a < b THEN 1 ELSE 0, Low |-> a - b]

(* NS.Types.resize(NS.Types.size() - D) where D is an unsigned converted   *)
(* to size_t (SizeBits wide).  With a 32-bit size_t the 2^32 of a wrapped  *)
(* D vanishes; with a 64-bit size_t the new size is 2^64 - 2^32 + ..., more*)
(* than max_size(), and resize throws std::length_error (no handler: the   *)
(* program terminates).  New elements are value-initialized (MVT 0).       *)
resize(Types, D, SizeBits) ==
  IF D.Wrap = 1 /\ SizeBits = 64
  THEN [Ok |-> FALSE, Types |-> Types]
  ELSE LET n == Len(Types) - D.Low
       IN [Ok |-> TRUE,
           Types |-> [k \in 1..n |-> IF k <= Len(Types) THEN Types[k]
                                     ELSE "Other"]]

(* The result loop of flattenSDNode: for i = 0 .. Types.size() - 1, a      *)
(* result numbered CurDefNo + i for every type that is not isVoid.         *)
RECURSIVE ProduceResults(_, _, _)
ProduceResults(CurDefNo, Types, i) ==
  IF i >= Len(Types) THEN <<>>
  ELSE IF Types[i + 1] # "isVoid"
  THEN <<LSResult(CurDefNo + i, Types[i + 1])>>
         \o ProduceResults(CurDefNo, Types, i + 1)
  ELSE ProduceResults(CurDefNo, Types, i + 1)

(* SetVector::insert                                                       *)
SetVectorInsert(V, X) ==
  IF \E k \in 1..Len(V) : V[k] = X THEN V ELSE Append(V, X)

RECURSIVE flattenSubtree(_, _)
RECURSIVE flattenChildren(_, _, _)

(* One iteration of the child loop of flattenSDNode, given what            *)
(* flattenSubtree made of child i: the first result of the child becomes   *)
(* an operand of the node S.NS being built.                                *)
addChildResult(S, Child, TPN, i) ==
  IF Child.L.Fatal # "" THEN [L |-> Child.L, NS |-> S.NS]
  ELSE IF Child.R = <<>>
  THEN [L |-> Abort(Child.L, "assert: subtree defined nothing"), NS |-> S.NS]
  ELSE flattenChildren([L |-> Child.L,
                        NS |-> addOperand(S.NS, utostr(Child.R[1].DefNo))],
                       TPN, i + 1)

(* The child loop of flattenSDNode (both branches) from child i on.  S is  *)
(* the linearizer record L together with the node NS being built.          *)
flattenChildren(S, TPN, i) ==
  IF S.L.Fatal # "" \/ i >= Len(TPN.Children) THEN S
  ELSE addChildResult(S, flattenSubtree(S.L, TPN.Children[i + 1]), TPN, i)

(* The SDNodeEquiv step of flattenSDNode: the opcode and the truncated     *)
(* type list, or a fatal error.                                            *)
applyEquiv(S, TPN) ==
  IF TPN.Operator \notin DOMAIN SDNodeEquiv THEN S
  ELSE
    LET EquivSDNI == OperatorInfo[SDNodeEquiv[TPN.Operator]]
        D == UnsignedSub(Len(TPN.Types), EquivSDNI.NumResults)
        Resized == resize(S.NS.Types, D, S.L.SizeBits)
    IN IF D.Wrap = 0 /\ D.Low = 0
       THEN [S EXCEPT !.L = Abort(@, "assert: equivalence keeps the arity")]
       ELSE IF ~Resized.Ok
       THEN [S EXCEPT !.L = Abort(@, "length_error")]
       ELSE [S EXCEPT !.NS.Opcode = EquivSDNI.EnumName,
                      !.NS.Types = Resized.Types]

(* The predicate step of flattenSDNode.                                    *)
applyPredicate(S, TPN) ==
  IF S.L.Fatal # "" \/ TPN.Preds = <<>> THEN S
  ELSE LET PredRec == TPN.Preds[Len(TPN.Preds)] IN
       [L |-> [S.L EXCEPT !.EncounteredPredicates = SetVectorInsert(@, PredRec)],
        NS |-> addOperand([S.NS EXCEPT !.Opcode = "DCINS::PREDICATE"],
                          <<"TargetOpcode", "Predicate", PredRec>>)]

(* The end of flattenSDNode (both branches): produce the results, add the  *)
(* op and return the results.  The result loop of the ComplexPattern       *)
(* branch also raises HasIntrinsic for an Untyped result, as addSemantics  *)
(* does.                                                                   *)
produceAndAdd(S) ==
  IF S.L.Fatal # "" THEN [L |-> S.L, R |-> <<>>]
  ELSE [L |-> Return(addSemantics(S.L, S.NS),
                     ProduceResults(S.L.CurDefNo, S.NS.Types, 0)),
        R |-> ProduceResults(S.L.CurDefNo, S.NS.Types, 0)]

(* LSResults LinearSemantics::flattenSDNode(TPN)                           *)
flattenSDNode(L, TPN) ==
  IF L.Fatal # "" THEN [L |-> L, R |-> <<>>]
  ELSE IF OperatorInfo[TPN.Operator].class = "ComplexPattern"
  THEN
    LET San == sanitizeSelectFuncToEnumVal(TPN.Operator)
        L1 == [L EXCEPT !.HasIntrinsic = @ \/ TPN.IntrinsicInfo,
                        !.HasComplexPattern = FALSE]
        NS1 == addOperand([LSNode(TPN) EXCEPT !.Opcode = "DCINS::COMPLEX_PATTERN"],
                          <<Namespace, "ComplexPattern", San.SF>>)
    IN IF ~San.Ok
       THEN [L |-> Abort(L1, "fatal: select func name"), R |-> <<>>]
       ELSE produceAndAdd(flattenChildren([L |-> L1, NS |-> NS1], TPN, 0))
  ELSE IF OperatorInfo[TPN.Operator].class # "SDNode"
  THEN [L |-> Abort(L, "unreachable: unable to handle operator"), R |-> <<>>]
  ELSE
    LET L1 == [L EXCEPT !.HasIntrinsic = @ \/ TPN.IntrinsicInfo,
                        !.HasComplexPattern = @ \/ TPN.ComplexPatternInfo]
        NS1 == [LSNode(TPN) EXCEPT
                  !.Opcode = OperatorInfo[TPN.Operator].EnumName]
    IN produceAndAdd(
         flattenChildren(
           applyPredicate(applyEquiv([L |-> L1, NS |-> NS1], TPN), TPN),
           TPN, 0))

(* LSResults LinearSemantics::flattenSubtree(TPN)                          *)
flattenSubtree(L, TPN) ==
  IF L.Fatal # "" THEN [L |-> L, R |-> <<>>]
  ELSE IF getNamedOperand(TPN.Name) # 0
  THEN flattenOperand(L, TPN, getNamedOperand(TPN.Name))
  ELSE IF TPN.Leaf THEN flattenLeaf(L, TPN)
  ELSE flattenSDNode(L, TPN)

(* The target loop of flattenSet, from target i on.                        *)
RECURSIVE flattenSetTargets(_, _, _, _)
flattenSetTargets(L, TPN, ChildResults, i) ==
  IF L.Fatal # "" \/ i >= Len(TPN.Children) - 1 THEN L
  ELSE
    LET Child == TPN.Children[i + 1]
        NumOps == Len(ChildResults)
    IN
    IF ~Child.Leaf \/ "def" \notin DOMAIN Child.LeafValue
    THEN Abort(L, "assert: cast<DefInit>")
    ELSE
      LET OpRec0 == Child.LeafValue.class
          OpRec == IF OpRec0 = "RegisterOperand" THEN "RegisterClass"
                   ELSE OpRec0
          OpInfo == getNamedOperand(Child.Name)
          NS0 == LSNode(TPN)
          Op == ChildResults[i + 1]
      IN
      IF i >= NumOps
      THEN IF OpRec0 # "Register"
           THEN Abort(L, "assert: dropped implicit-def is a register")
           ELSE flattenSetTargets(
                  [L EXCEPT !.ImplicitDefs = Append(@, Child.LeafValue.def)],
                  TPN, ChildResults, i + 1)
      ELSE IF OpRec = "RegisterClass"
      THEN IF OpInfo = 0
           THEN Abort(L, "assert: set output operand not found")
           ELSE flattenSetTargets(
                  addSemantics(L,
                    addOperand(
                      addOperand([NS0 EXCEPT !.Opcode = "DCINS::PUT_RC"],
                                 utostr(CGIOperands[OpInfo].MIOperandNo)),
                      utostr(Op.DefNo))),
                  TPN, ChildResults, i + 1)
      ELSE IF OpRec = "Register"
      THEN flattenSetTargets(
             addSemantics([L EXCEPT !.ExplicitDefs =
                                       Append(@, Child.LeafValue.def)],
               addOperand(
                 addOperand([NS0 EXCEPT !.Opcode = "DCINS::PUT_REG"],
                            <<Namespace, Child.LeafValue.def>>),
                 utostr(Op.DefNo))),
             TPN, ChildResults, i + 1)
      ELSE Abort(L, "unreachable: SET should only set registers")

(* flattenSet after flattenSubtree(LastChild): the loop over the targets.  *)
flattenSetFrom(Value, TPN) == flattenSetTargets(Value.L, TPN, Value.R, 0)

(* void LinearSemantics::flattenSet(TPN)                                   *)
flattenSet(L, TPN) ==
  IF L.Fatal # "" THEN L
  ELSE IF Len(TPN.Children) - 1 > Len(TPN.Children[Len(TPN.Children)].Types)
  THEN Abort(L, "assert: last child defines all the others")
  ELSE flattenSetFrom(flattenSubtree(L, TPN.Children[Len(TPN.Children)]), TPN)

(* RegBank.getReg(R): the CodeGenRegister of a register record.            *)
getReg(R) == <<"CodeGenRegister", R>>

(* A filtering loop that does not look for the register among those        *)
(* already kept.                                                           *)
RECURSIVE FilterKeepingDuplicates(_, _, _, _, _)
FilterKeepingDuplicates(All, k, ExplicitDefs, ImplicitDefs, Out) ==
  IF k > Len(All) THEN Out
  ELSE IF <<"CodeGenRegister", All[k]>> \notin ExplicitDefs
       THEN FilterKeepingDuplicates(All, k + 1, ExplicitDefs, ImplicitDefs,
                                    Append(Out, All[k]))
       ELSE FilterKeepingDuplicates(All, k + 1, ExplicitDefs, ImplicitDefs, Out)

(* The filtering loop of computeImplicitDefs over AllImplicitDefs[k..].    *)
RECURSIVE FilterImplicitDefs(_, _, _, _, _)
FilterImplicitDefs(All, k, ExplicitDefs, ImplicitDefs, Out) ==
  IF k > Len(All) THEN Out
  ELSE LET CGR == getReg(All[k]) IN
       IF CGR \notin ExplicitDefs /\ CGR \notin ImplicitDefs
       THEN FilterImplicitDefs(All, k + 1, ExplicitDefs,
                               ImplicitDefs \cup {CGR}, Append(Out, All[k]))
       ELSE FilterImplicitDefs(All, k + 1, ExplicitDefs, ImplicitDefs, Out)

(* void LinearSemantics::computeImplicitDefs(); CGIImplicitDefs is         *)
(* CGI.ImplicitDefs, the registers the instruction declares.               *)
computeImplicitDefs(L, CGIImplicitDefs) ==
  IF L.Fatal # "" THEN L
  ELSE
    LET ExplicitDefs == {getReg(L.ExplicitDefs[k]) : k \in 1..Len(L.ExplicitDefs)}
        AllImplicitDefs == CGIImplicitDefs \o L.ImplicitDefs
    IN [L EXCEPT !.ImplicitDefs =
          FilterImplicitDefs(AllImplicitDefs, 1, ExplicitDefs, {}, <<>>)]

(* flatten after flattenSDNode: a top-level node produces no result.       *)
noResults(Res) ==
  IF Res.L.Fatal = "" /\ Res.R # <<>>
  THEN Abort(Res.L, "assert: top-level SDNodes produce no results")
  ELSE Res.L

(* void LinearSemantics::flatten(TPN)                                      *)
flatten(L, TPN) ==
  IF L.Fatal # "" THEN L
  ELSE IF TPN.Operator = "implicit" THEN L
  ELSE IF TPN.Operator = "set" THEN flattenSet(L, TPN)
  ELSE noResults(flattenSDNode(L, TPN))

(* The loop of parseInstSemantics over TP.getTrees(), calling flatten.      *)
RECURSIVE flattenTrees(_, _, _)
flattenTrees(L, Trees, k) ==
  IF k > Len(Trees) THEN L
  ELSE flattenTrees(flatten(L, Trees[k]), Trees, k + 1)

(* InstSemantics Sema; LinearSemantics Flat(SemaTarget, CGI, Sema): a new  *)
(* program and a new linearizer over the shared target state T.            *)
LinearSemantics(T) ==
  [Semantics |-> <<>>, ExplicitDefs |-> <<>>, ImplicitDefs |-> <<>>,
   LastDefSemaIdx |-> UINT_MAX, LastDefNo |-> UINT_MAX,
   HasIntrinsic |-> FALSE, HasComplexPattern |-> FALSE,
   OperandByName |-> [n \in {} |-> 0], CurDefNo |-> 0, Returned |-> <<>>,
   ConstantIdx |-> T.ConstantIdx, CurConstantIdx |-> T.CurConstantIdx,
   EncounteredPredicates |-> T.EncounteredPredicates,
   SizeBits |-> T.SizeBits, Fatal |-> ""]

(* The linearization part of parseInstSemantics: flatten every tree of the *)
(* pattern, then computeImplicitDefs.                                      *)
Linearize(T, CGI, TP) ==
  computeImplicitDefs(flattenTrees(LinearSemantics(T), TP, 1), CGI.ImplicitDefs)

(* An acceptance test without the test for a producing op.                 *)
AcceptedWithoutProducer(Sema) ==
  /\ ~(Sema.HasIntrinsic \/ Sema.HasComplexPattern)
  /\ ~(Len(Sema.ImplicitDefs) > 1)

(* The acceptance test of parseInstSemantics.                              *)
Accepted(Sema) ==
  /\ ~(Sema.HasIntrinsic \/ Sema.HasComplexPattern)
  /\ ~(Len(Sema.ImplicitDefs) > 1)
  /\ ~(Sema.ImplicitDefs # <<>> /\ Sema.LastDefNo = UINT_MAX)

(* class InstSemantics: the part of the linearizer's record that is the    *)
(* program pushed to InstSemas.                                            *)
InstSemantics(L, TP) ==
  [Pattern |-> TP, Semantics |-> L.Semantics,
   ExplicitDefs |-> L.ExplicitDefs, ImplicitDefs |-> L.ImplicitDefs,
   LastDefSemaIdx |-> L.LastDefSemaIdx, LastDefNo |-> L.LastDefNo,
   HasIntrinsic |-> L.HasIntrinsic, HasComplexPattern |-> L.HasComplexPattern]

(***************************************************************************)
(* The state of a generation run.                                          *)
(*   Target      SemanticsTarget: ConstantIdx, CurConstantIdx,             *)
(*               EncounteredPredicates (and the width of size_t of the     *)
(*               build, SizeBits)                                          *)
(*   InstIdx, InstSemas, CurSemaOffset   the fields of SemanticsEmitter    *)
(*   pc          where the run is: "ParseSemantics" (the first pass of the *)
(*               constructor), "Patterns" (its second pass), "run",        *)
(*               "done", or "aborted" after a fatal error                  *)
(*   Instrs      the Semantics records read so far: the instruction each   *)
(*               names, whether its program was accepted and the entry of  *)
(*               InstIdx for that instruction after the call; i, the loop  *)
(*               variable of the second pass                               *)
(*   Call        the last call of parseInstSemantics: its arguments, the   *)
(*               target state T it started from, the linearizer record L   *)
(*               it built and whether it accepted                          *)
(*   InstSemanticsArray, OpcodeToSemaIdx, ConstantArray   the emitted      *)
(*               tables                                                    *)
(***************************************************************************)
VARIABLES Target, InstIdx, InstSemas, CurSemaOffset, pc, Instrs, i, Call,
          InstSemanticsArray, OpcodeToSemaIdx, ConstantArray

vars == <<Target, InstIdx, InstSemas, CurSemaOffset, pc, Instrs, i, Call,
          InstSemanticsArray, OpcodeToSemaIdx, ConstantArray>>

(* The shared state a linearizer leaves behind in SemanticsTarget.         *)
TargetAfter(T, L) ==
  [T EXCEPT !.ConstantIdx = L.ConstantIdx,
            !.CurConstantIdx = L.CurConstantIdx,
            !.EncounteredPredicates = L.EncounteredPredicates]

(* parseInstSemantics after the linearization L: the acceptance test and   *)
(* the writes to InstIdx and InstSemas.                                    *)
acceptOrIgnore(T, Idx, Semas, InstEnumValue, CGI, TP, L) ==
  LET Sema == InstSemantics(L, TP)
      Ok == L.Fatal = "" /\ Accepted(Sema)
  IN [Target |-> TargetAfter(T, L),
      InstIdx |-> IF Ok THEN [Idx EXCEPT ![InstEnumValue + 1] = Len(Semas)]
                  ELSE Idx,
      InstSemas |-> IF Ok THEN Append(Semas, Sema) ELSE Semas,
      Call |-> [Inst |-> InstEnumValue, CGI |-> CGI, TP |-> TP, T |-> T,
                L |-> L, Accepted |-> Ok]]

(* void SemanticsEmitter::parseInstSemantics(InstEnumValue, CGI, TP): the  *)
(* new Target, InstIdx and InstSemas, and the record of the call.          *)
parseInstSemantics(T, Idx, Semas, InstEnumValue, CGI, TP) ==
  acceptOrIgnore(T, Idx, Semas, InstEnumValue, CGI, TP,
                 Linearize(T, CGI, TP.Trees))

(***************************************************************************)
(* SemanticsEmitter::run: the layout of the emitted tables.  An element of *)
(* InstSemanticsArray is one comma-separated item of the emitted           *)
(* initializer: an opcode, the "(types<<8)|operands" word, a type or an    *)
(* operand.                                                                *)
(***************************************************************************)
END_OF_INSTRUCTION == [kind |-> "opcode", val |-> "DCINS::END_OF_INSTRUCTION"]

(* The items emitted for one LSNode by the inner loop of run.              *)
EmitNode(NS) ==
  << [kind |-> "opcode", val |-> NS.Opcode],
     [kind |-> "counts", val |-> <<Len(NS.Types), Len(NS.Operands)>>] >>
  \o [k \in 1..Len(NS.Types) |-> [kind |-> "type", val |-> NS.Types[k]]]
  \o [k \in 1..Len(NS.Operands) |-> [kind |-> "operand", val |-> NS.Operands[k]]]

(* The inner loop of run over Sema.Semantics, from op k on: the array and  *)
(* CurSemaOffset as the code advances them.                                *)
RECURSIVE EmitSemantics(_, _, _, _)
EmitSemantics(Semantics, k, Arr, Off) ==
  IF k > Len(Semantics) THEN [Arr |-> Arr, Off |-> Off]
  ELSE LET NS == Semantics[k] IN
       EmitSemantics(Semantics, k + 1, Arr \o EmitNode(NS),
                     Off + 1 + 1 + Len(NS.Types) + Len(NS.Operands))

(* The outer loop of run, from instruction I on.                           *)
RECURSIVE EmitInsts(_, _, _, _, _)
EmitInsts(I, Idx, Semas, Arr, Off) ==
  IF I >= Len(Idx) THEN [InstIdx |-> Idx, Arr |-> Arr, Off |-> Off, Fatal |-> ""]
  ELSE IF Idx[I + 1] = UINT_MAX THEN EmitInsts(I + 1, Idx, Semas, Arr, Off)
  ELSE
    LET Sema == Semas[Idx[I + 1] + 1]
        Idx1 == [Idx EXCEPT ![I + 1] = Off]
        Ops == EmitSemantics(Sema.Semantics, 1, Arr, Off + 1)
        Imp == << [kind |-> "opcode", val |-> "DCINS::IMPLICIT"],
                  [kind |-> "counts", val |-> 0],
                  [kind |-> "operand",
                   val |-> <<Namespace, getReg(Sema.ImplicitDefs[1])>>] >>
    IN IF Len(Sema.ImplicitDefs) > 1
       THEN [InstIdx |-> Idx1, Arr |-> Ops.Arr, Off |-> Ops.Off,
             Fatal |-> "assert: multiple IMPLICITs"]
       ELSE IF Sema.ImplicitDefs # <<>> /\ Sema.LastDefNo = UINT_MAX
       THEN [InstIdx |-> Idx1, Arr |-> Ops.Arr, Off |-> Ops.Off,
             Fatal |-> "assert: IMPLICIT without any other def"]
       ELSE IF Sema.ImplicitDefs # <<>>
       THEN EmitInsts(I + 1, Idx1, Semas,
                      (Ops.Arr \o Imp) \o <<END_OF_INSTRUCTION>>, Ops.Off + 3)
       ELSE EmitInsts(I + 1, Idx1, Semas,
                      Ops.Arr \o <<END_OF_INSTRUCTION>>, Ops.Off)

(* A ConstantArray filled by Constants[CI.second] = CI.first.               *)
EmitConstantsAtIndex(T) ==
  [k \in 1..T.CurConstantIdx |->
     IF \E v \in MapKeys(T.ConstantIdx) : MapAt(T.ConstantIdx, v) = k - 1
     THEN CHOOSE v \in MapKeys(T.ConstantIdx) : MapAt(T.ConstantIdx, v) = k - 1
     ELSE 0]

(* The ConstantArray of run: Constants[CI.second - 1] = CI.first for every *)
(* entry of the pool, in a vector of CurConstantIdx zeroes.                *)
EmitConstants(T) ==
  [k \in 1..T.CurConstantIdx |->
     IF \E v \in MapKeys(T.ConstantIdx) : MapAt(T.ConstantIdx, v) = k
     THEN CHOOSE v \in MapKeys(T.ConstantIdx) :
            /\ MapAt(T.ConstantIdx, v) = k
            /\ \A w \in MapKeys(T.ConstantIdx) :
                 MapAt(T.ConstantIdx, w) = k => w <= v
     ELSE 0]

(***************************************************************************)
(* The pattern database: TreePatternNodes.  A node has a name, is a leaf   *)
(* (with a leaf value) or has an operator and children, carries its        *)
(* result types, whether getIntrinsicInfo / getComplexPatternInfo answer   *)
(* for it, and its predicate functions.                                    *)
(***************************************************************************)
LeafNode(Name, Value, Types) ==
  [Name |-> Name, Leaf |-> TRUE, LeafValue |-> Value, Operator |-> "",
   Types |-> Types, Children |-> <<>>, IntrinsicInfo |-> FALSE,
   ComplexPatternInfo |-> FALSE, Preds |-> <<>>]

OpNode(V, Children) ==
  [Name |-> "", Leaf |-> FALSE, LeafValue |-> [none |-> TRUE],
   Operator |-> V.Operator, Types |-> V.Types, Children |-> Children,
   IntrinsicInfo |-> V.IntrinsicInfo,
   ComplexPatternInfo |-> V.ComplexPatternInfo, Preds |-> V.Preds]

Plain(Operator, Types) ==
  [Operator |-> Operator, Types |-> Types, IntrinsicInfo |-> FALSE,
   ComplexPatternInfo |-> FALSE, Preds |-> <<>>]

(* Operand references and leaves.                                          *)
OpA == LeafNode("a", [def |-> "GPR", class |-> "RegisterClass"], <<"i32">>)
OpB == LeafNode("b", [def |-> "GPROp", class |-> "RegisterOperand"], <<"i32">>)
OpImm == LeafNode("imm", [def |-> "i32imm", class |-> "Operand"], <<"i32">>)
OpAddr == LeafNode("addr", [def |-> "i32mem", class |-> "Operand"], <<"i32">>)
IntLeaf(v) == LeafNode("", [int |-> v], <<"i32">>)
RegLeaf(R) == LeafNode("", [def |-> R, class |-> "Register"], <<"i32">>)

(* Targets of a set.                                                       *)
Dst == LeafNode("dst", [def |-> "GPR", class |-> "RegisterClass"], <<"i32">>)
SetNode(Targets, Value) == OpNode(Plain("set", <<>>), Targets \o <<Value>>)
ImplicitNode == OpNode(Plain("implicit", <<>>), <<RegLeaf("EFLAGS")>>)

(* A TreePattern: its trees, and which object it is (the pattern of a      *)
(* Semantics record or the pattern of the Instruction itself).             *)
TreePattern(Trees, Origin) == [Trees |-> Trees, Origin |-> Origin]

(***************************************************************************)
(* Bounds of the pattern database.                                         *)
(***************************************************************************)
MaxChildren == 2
NumInsts == 2
MaxSemanticsRecords == 1

Leaves == {OpA, OpB, OpImm, OpAddr, IntLeaf(5), IntLeaf(7), RegLeaf("EAX")}

(* The kinds of operation node: operator, result types, annotations.       *)
Variants ==
  { Plain("add", <<"i32">>),
    Plain("store", <<>>),
    Plain("umul_lohi", <<"i32", "i32">>),
    Plain("umul_lohi", <<"isVoid", "i32">>),
    Plain("umul_lohi", <<"i32", "isVoid">>),
    Plain("add", <<"isVoid">>),
    Plain("add", <<"Untyped">>),
    Plain("X86add_flag", <<"i32", "i32">>),
    Plain("X86add_flag", <<"i32">>),
    Plain("X86umul", <<"i32", "i32", "i32">>),
    Plain("X86umul", <<"i32", "i32">>),
    Plain("X86umul", <<"i32">>),
    Plain("addr", <<"i32">>),
    Plain("lea_addr", <<"i32">>),
    [Plain("addr", <<"i32">>) EXCEPT !.IntrinsicInfo = TRUE],
    [Plain("add", <<"i32">>) EXCEPT !.IntrinsicInfo = TRUE],
    [Plain("X86add_flag", <<"i32", "i32">>) EXCEPT !.IntrinsicInfo = TRUE],
    [Plain("add", <<"i32">>) EXCEPT !.ComplexPatternInfo = TRUE],
    [Plain("add", <<"i32">>) EXCEPT !.Preds = <<"immSExt8">>],
    [Plain("X86add_flag", <<"i32", "i32">>) EXCEPT !.Preds = <<"immSExt8", "isZero">>] }

(* Sequences over S of length 1 .. n.                                      *)
SeqsUpTo(S, n) == UNION {[1..k -> S] : k \in 1..n}

ChildLists == SeqsUpTo(Leaves, MaxChildren)

(* Operation nodes over leaves, and operation nodes whose first child is   *)
(* itself an operation node.                                               *)
FlatValues == {OpNode(V, Cs) : V \in Variants, Cs \in ChildLists}

NestedValues ==
  {OpNode(V, <<OpNode(W, <<OpA>>), X>>) :
     V \in Variants, W \in Variants, X \in {OpAddr, IntLeaf(5)}}

Values == FlatValues \cup NestedValues

TargetLists ==
  { <<Dst>>, <<RegLeaf("EAX")>>, <<RegLeaf("EAX"), RegLeaf("EFLAGS")>>,
    <<Dst, RegLeaf("EFLAGS")>>, <<RegLeaf("EAX"), Dst>>,
    <<RegLeaf("EFLAGS"), RegLeaf("EFLAGS")>>,
    <<LeafNode("", [def |-> "GPR", class |-> "RegisterClass"], <<"i32">>)>>,
    <<OpImm>> }

(* The trees a pattern is made of, and the patterns of the linearization   *)
(* specification: one tree, or two trees of a smaller set.                 *)
SetTrees ==
  {SetNode(<<Dst>>, V) : V \in Values}
  \cup {SetNode(Ts, OpNode(V, <<OpA, X>>)) :
          Ts \in TargetLists, V \in Variants, X \in {OpAddr, IntLeaf(5)}}

SmallTrees ==
  { ImplicitNode,
    SetNode(<<Dst>>, OpNode(Plain("add", <<"i32">>), <<OpA, OpAddr>>)),
    SetNode(<<RegLeaf("EAX"), RegLeaf("EFLAGS")>>,
            OpNode(Plain("X86add_flag", <<"i32", "i32">>), <<OpAddr, IntLeaf(5)>>)),
    SetNode(<<RegLeaf("EAX"), RegLeaf("ECX")>>,
            OpNode(Plain("X86add_flag", <<"i32", "i32">>), <<OpA, OpB>>)),
    SetNode(<<RegLeaf("EFLAGS")>>, OpAddr),
    OpNode(Plain("store", <<>>), <<OpA, OpAddr>>),
    OpNode(Plain("addr", <<>>), <<OpAddr>>),
    OpNode([Plain("store", <<>>) EXCEPT !.ComplexPatternInfo = TRUE], <<IntLeaf(7)>>) }

Patterns ==
  {<<T>> : T \in SetTrees \cup FlatValues \cup SmallTrees}
  \cup {<<T1, T2>> : T1 \in SmallTrees, T2 \in SmallTrees}

(* CGI.ImplicitDefs of the instructions of the linearization specification.*)
DeclaredImplicitDefs ==
  { <<>>, <<"EFLAGS">>, <<"EAX">>, <<"EFLAGS", "EFLAGS">>, <<"EAX", "EFLAGS">> }

(* The patterns of the specification of a whole run.                      *)
RunPatterns ==
  { <<SetNode(<<Dst>>, OpNode(Plain("add", <<"i32">>), <<OpA, OpB>>))>>,
    <<SetNode(<<Dst>>, OpNode(Plain("add", <<"i32">>), <<OpAddr, IntLeaf(5)>>))>>,
    <<SetNode(<<Dst>>,
              OpNode([Plain("add", <<"i32">>) EXCEPT !.IntrinsicInfo = TRUE,
                                                    !.Preds = <<"immSExt8">>],
                     <<OpA, IntLeaf(7)>>))>>,
    <<SetNode(<<Dst>>, OpNode(Plain("addr", <<"i32">>), <<OpA, IntLeaf(5)>>))>>,
    <<SetNode(<<RegLeaf("EAX"), RegLeaf("EFLAGS")>>,
              OpNode(Plain("X86add_flag", <<"i32", "i32">>), <<OpA, IntLeaf(7)>>))>>,
    <<ImplicitNode>>,
    <<SetNode(<<Dst>>, OpNode(Plain("X86add_flag", <<"i32">>), <<OpA>>))>>,
    <<SetNode(<<Dst>>, OpNode(Plain("add", <<"i32">>), <<OpAddr, OpAddr>>))>>,
    <<SetNode(<<Dst>>, OpNode(Plain("add", <<"i32">>), <<OpImm, OpImm>>))>>,
    <<OpNode(Plain("store", <<>>), <<OpA, OpA>>)>> }

(* CGI.ImplicitDefs of instruction I in the specification of a whole run.  *)
CGIByEnum(I) ==
  [ImplicitDefs |-> IF I % 3 = 1 THEN <<"EFLAGS">> ELSE <<>>]

(* The constant pool of a run that has already interned n distinct         *)
(* constants, 1 .. n, in increasing order.                                 *)
PoolAfter(n) ==
  [ConstantIdx |-> [Dense |-> n, Rest |-> [v \in {} |-> 0]],
   CurConstantIdx |-> n]

InitWith(Pool) ==
  /\ \E SizeBits \in {32, 64} :
       Target = [ConstantIdx |-> Pool.ConstantIdx,
                 CurConstantIdx |-> Pool.CurConstantIdx,
                 EncounteredPredicates |-> <<>>, SizeBits |-> SizeBits]
  /\ InstIdx = [k \in 1..NumInsts |-> UINT_MAX]
  /\ InstSemas = <<>>
  /\ CurSemaOffset = 0
  /\ pc = "ParseSemantics"
  /\ Instrs = <<>>
  /\ i = 0
  /\ Call = [Inst |-> UINT_MAX]
  /\ InstSemanticsArray = <<>>
  /\ OpcodeToSemaIdx = <<>>
  /\ ConstantArray = <<>>

(* SemanticsEmitter's constructor up to the call of ParseSemantics.        *)
Init == InitWith(PoolAfter(0))

(* One call of parseInstSemantics from ParseSemantics, for the Semantics   *)
(* record naming instruction Inst.                                         *)
ParseRecord(Inst, CGI, TP) ==
  \E P \in {parseInstSemantics(Target, InstIdx, InstSemas, Inst, CGI, TP)} :
  /\ Target' = P.Target
  /\ InstIdx' = P.InstIdx
  /\ InstSemas' = P.InstSemas
  /\ Call' = P.Call
  /\ Instrs' = Append(Instrs, [Inst |-> Inst, Accepted |-> P.Call.Accepted,
                               Idx |-> P.InstIdx[Inst + 1]])
  /\ pc' = IF P.Call.L.Fatal # "" THEN "aborted" ELSE pc
  /\ UNCHANGED <<CurSemaOffset, i, InstSemanticsArray, OpcodeToSemaIdx,
                 ConstantArray>>

(* void SemanticsEmitter::ParseSemantics(): one iteration of its loop.     *)
ParseSemantics ==
  /\ pc = "ParseSemantics"
  /\ Len(Instrs) < MaxSemanticsRecords
  /\ \E Inst \in 0..(NumInsts - 1), TP \in RunPatterns :
       ParseRecord(Inst, CGIByEnum(Inst), TreePattern(TP, "Semantics"))

(* The end of ParseSemantics: the constructor goes on to its second pass.  *)
ParseSemanticsEnd ==
  /\ pc = "ParseSemantics"
  /\ pc' = "Patterns"
  /\ i' = 0
  /\ UNCHANGED <<Target, InstIdx, InstSemas, CurSemaOffset, Instrs, Call,
                 InstSemanticsArray, OpcodeToSemaIdx, ConstantArray>>

(* A second pass that skips nothing on account of InstIdx.                 *)
NeverHasSemantics(Idx, I) == FALSE

(* if (InstIdx[i] != ~0U) continue;                                        *)
HasSemantics(Idx, I) == Idx[I + 1] # UINT_MAX

(* SemanticsEmitter::SemanticsEmitter: one iteration of the loop over      *)
(* CGIByEnum.  HasPattern is DI.getPattern() != nullptr.                   *)
SemanticsEmitter ==
  /\ pc = "Patterns"
  /\ i < NumInsts
  /\ \E HasPattern \in BOOLEAN, isCodeGenOnly \in BOOLEAN, TP \in RunPatterns :
       IF HasSemantics(InstIdx, i) \/ ~HasPattern \/ isCodeGenOnly
       THEN /\ i' = i + 1
            /\ pc' = IF i + 1 = NumInsts THEN "run" ELSE pc
            /\ UNCHANGED <<Target, InstIdx, InstSemas, CurSemaOffset, Instrs,
                           Call, InstSemanticsArray, OpcodeToSemaIdx,
                           ConstantArray>>
       ELSE \E P \in {parseInstSemantics(Target, InstIdx, InstSemas, i,
                         CGIByEnum(i), TreePattern(TP, "Instruction"))} :
               /\ Target' = P.Target
               /\ InstIdx' = P.InstIdx
               /\ InstSemas' = P.InstSemas
               /\ Call' = P.Call
               /\ i' = i + 1
               /\ pc' = IF P.Call.L.Fatal # "" THEN "aborted"
                        ELSE IF i + 1 = NumInsts THEN "run" ELSE pc
               /\ UNCHANGED <<CurSemaOffset, Instrs, InstSemanticsArray,
                              OpcodeToSemaIdx, ConstantArray>>

(* void SemanticsEmitter::run(raw_ostream &OS)                             *)
run ==
  /\ pc = "run"
  /\ \E E \in {EmitInsts(1, InstIdx, InstSemas, <<END_OF_INSTRUCTION>>, 1)},
        ConstantsOk \in {Target.CurConstantIdx = MapSize(Target.ConstantIdx)} :
        /\ InstIdx' = E.InstIdx
        /\ InstSemanticsArray' = E.Arr
        /\ CurSemaOffset' = E.Off
        /\ OpcodeToSemaIdx' = IF E.Fatal = "" THEN E.InstIdx ELSE OpcodeToSemaIdx
        /\ ConstantArray' = IF E.Fatal = "" /\ ConstantsOk
                            THEN EmitConstants(Target) ELSE ConstantArray
        /\ pc' = IF E.Fatal = "" /\ ConstantsOk THEN "done" ELSE "aborted"
  /\ UNCHANGED <<Target, InstSemas, Instrs, i, Call>>

Next == ParseSemantics \/ ParseSemanticsEnd \/ SemanticsEmitter \/ run

Spec == Init /\ [][Next]_vars

(***************************************************************************)
(* The linearization of one instruction: parseInstSemantics on the first   *)
(* Semantics record of a database, for every pattern of Patterns and every *)
(* list of declared implicit defs.                                         *)
(***************************************************************************)
ParseOne ==
  /\ pc = "ParseSemantics"
  /\ Instrs = <<>>
  /\ \E TP \in Patterns, Defs \in DeclaredImplicitDefs :
       ParseRecord(0, [ImplicitDefs |-> Defs], TreePattern(TP, "Semantics"))

NextFlat == ParseOne

SpecFlat == Init /\ [][NextFlat]_vars

(***************************************************************************)
(* The constant pool near its ceiling: a run whose earlier instructions    *)
(* (all rejected, so that InstSemas is still empty) have interned          *)
(* NearFull distinct constants, followed by the Semantics records of       *)
(* PoolPatterns.                                                           *)
(***************************************************************************)
NearFull == UINT16_MOD - 2
MaxPoolRecords == 4

PoolConstants == {5, UINT16_MOD + 1, UINT16_MOD + 2, UINT16_MOD + 3}

(* The instructions whose constants are counted here come in two kinds:    *)
(* a set of a constant, which is accepted, and a set of an add carrying an *)
(* intrinsic annotation, which is linearized and then ignored.             *)
IgnoredConstants == {UINT16_MOD + 2, UINT16_MOD + 3}

PoolPatterns ==
  {<<SetNode(<<Dst>>, IntLeaf(v))>> : v \in PoolConstants}
  \cup {<<SetNode(<<Dst>>,
                  OpNode([Plain("add", <<"i32">>) EXCEPT !.IntrinsicInfo = TRUE],
                         <<OpA, IntLeaf(v)>>))>> : v \in IgnoredConstants}

InitPool == \E n \in {0, NearFull} : InitWith(PoolAfter(n))

ParsePool ==
  /\ pc = "ParseSemantics"
  /\ Len(Instrs) < MaxPoolRecords
  /\ \E TP \in PoolPatterns :
       ParseRecord(0, CGIByEnum(0), TreePattern(TP, "Semantics"))

NextPool == ParsePool

SpecPool == InitPool /\ [][NextPool]_vars

(***************************************************************************)
(* Properties.  The program a property talks about is the one built by the *)
(* last call of parseInstSemantics, Call.L; Linearized says that there was *)
(* such a call and that it ran to its end.                                 *)
(***************************************************************************)
Linearized == Call.Inst # UINT_MAX /\ Call.L.Fatal = ""

(* The number of results the ops at positions 0 .. p - 1 of Sem produce,   *)
(* that is the value number of the first result of the op at position p.   *)
RECURSIVE FirstResultOf(_, _)
FirstResultOf(Sem, p) ==
  IF p = 0 THEN 0
  ELSE FirstResultOf(Sem, p - 1) + NumNonVoid(Sem[p].Types)

(* The value numbers of the results the op at position q of Sem produces.  *)
ResultsOf(Sem, q) ==
  FirstResultOf(Sem, q) .. (FirstResultOf(Sem, q + 1) - 1)

(* The positions, in the operand list of NS, of the operands that are      *)
(* value numbers.                                                          *)
ValueOperands(NS) ==
  IF NS.Opcode \in {"DCINS::GET_RC", "DCINS::GET_IMMEDIATE", "DCINS::CUSTOM_OP",
                    "DCINS::GET_CONSTANT", "DCINS::GET_REG"}
  THEN {}
  ELSE IF NS.Opcode \in {"DCINS::PUT_RC", "DCINS::PUT_REG",
                         "DCINS::COMPLEX_PATTERN", "DCINS::PREDICATE"}
  THEN 2..Len(NS.Operands)
  ELSE 1..Len(NS.Operands)

(* C1: in every program built by LinearSemantics, every operand that is a  *)
(* value number names a result produced by an op at a strictly smaller     *)
(* position of the same program.                                           *)
OperandsReferToEarlierResults ==
  Linearized =>
    LET Sem == Call.L.Semantics IN
    \A p \in 0..(Len(Sem) - 1) : \A k \in ValueOperands(Sem[p + 1]) :
      \E q \in 0..(p - 1) : Sem[p + 1].Operands[k] \in ResultsOf(Sem, q)

(* C2: value numbers are dense and unique: the j-th result of the op at    *)
(* position p is handed to its consumers with the number of results        *)
(* produced before it, void types consume no number, and the counter is    *)
(* the number of results produced so far.                                  *)
ValueNumbersDenseAndUnique ==
  Linearized =>
    LET Sem == Call.L.Semantics
        Ret == Call.L.Returned
    IN /\ Call.L.CurDefNo = FirstResultOf(Sem, Len(Sem))
       /\ \A e \in 1..Len(Ret) : \A j \in 1..Len(Ret[e].R) :
            Ret[e].R[j].DefNo = FirstResultOf(Sem, Ret[e].SemaIdx) + (j - 1)
       /\ \A e \in 1..Len(Ret) :
            Len(Ret[e].R) = NumNonVoid(Sem[Ret[e].SemaIdx + 1].Types)

(* No op of the program has a void type before a non-void one.             *)
NoVoidBeforeNonVoid ==
  \A p \in 1..Len(Call.L.Semantics) :
    LET Ty == Call.L.Semantics[p].Types IN
    \A k \in 1..Len(Ty) : \A j \in 1..(k - 1) :
      Ty[j] = "isVoid" => Ty[k] = "isVoid"

(* The nodes flattenSubtree visits under TPN: a node that names a formal   *)
(* operand, or a leaf, is read without looking at its children.            *)
RECURSIVE Visited(_)
Visited(TPN) ==
  IF getNamedOperand(TPN.Name) # 0 \/ TPN.Leaf THEN {TPN}
  ELSE {TPN} \cup UNION {Visited(TPN.Children[k]) : k \in 1..Len(TPN.Children)}

(* The nodes visited while linearizing the trees of a pattern.             *)
VisitedOf(Trees) ==
  UNION { IF Trees[k].Operator = "implicit" THEN {}
          ELSE IF Trees[k].Operator = "set"
          THEN Visited(Trees[k].Children[Len(Trees[k].Children)])
          ELSE Visited(Trees[k]) : k \in 1..Len(Trees) }

(* A node because of which an instruction is to be excluded.               *)
IntrinsicOrComplex(TPN) ==
  \/ (~TPN.Leaf /\ OperatorInfo[TPN.Operator].class = "ComplexPattern")
  \/ TPN.IntrinsicInfo
  \/ TPN.ComplexPatternInfo
  \/ \E k \in 1..Len(TPN.Types) : TPN.Types[k] = "Untyped"

(* C3: an instruction one of whose visited nodes is a complex-pattern      *)
(* matcher, carries an intrinsic or complex-pattern annotation or has an   *)
(* untyped result is not accepted and keeps the index entry 'no program';  *)
(* no accepted program contains a DCINS::COMPLEX_PATTERN op.               *)
IntrinsicsAndComplexPatternsExcluded ==
  Linearized =>
    /\ (\E TPN \in VisitedOf(Call.TP.Trees) : IntrinsicOrComplex(TPN))
         => (~Call.Accepted /\ InstIdx[Call.Inst + 1] = UINT_MAX)
    /\ Call.Accepted =>
         \A p \in 1..Len(Call.L.Semantics) :
           Call.L.Semantics[p].Opcode # "DCINS::COMPLEX_PATTERN"

(* The items of the program of Sema in InstSemanticsArray: its MicroOps    *)
(* and its IMPLICIT op, without the closing END_OF_INSTRUCTION.            *)
RECURSIVE ItemsOf(_, _)
ItemsOf(Semantics, k) ==
  IF k > Len(Semantics) THEN <<>>
  ELSE EmitNode(Semantics[k]) \o ItemsOf(Semantics, k + 1)

ProgramOf(Sema) ==
  ItemsOf(Sema.Semantics, 1)
  \o (IF Sema.ImplicitDefs = <<>> THEN <<>>
      ELSE << [kind |-> "opcode", val |-> "DCINS::IMPLICIT"],
              [kind |-> "counts", val |-> 0],
              [kind |-> "operand",
               val |-> <<Namespace, getReg(Sema.ImplicitDefs[1])>>] >>)

(* Instruction I (whose program is Sema) is laid out at OpcodeToSemaIdx[I] *)
(* of the array Arr: the entry is in range and the items from there to the *)
(* next END_OF_INSTRUCTION are those of the program.                       *)
LaidOutAt(Arr, Start, Sema) ==
  LET Prog == ProgramOf(Sema) IN
  /\ Start >= 0
  /\ Start < Len(Arr)
  /\ Start + Len(Prog) < Len(Arr)
  /\ SubSeq(Arr, Start + 1, Start + Len(Prog)) = Prog
  /\ Arr[Start + Len(Prog) + 1] = END_OF_INSTRUCTION

(* The index table is right for the instructions From .. NumInsts - 1:     *)
(* stated of the step of run, where InstIdx still names the programs.      *)
IndexRightFrom(From) ==
  (pc = "run" /\ pc' = "done") =>
    /\ Len(OpcodeToSemaIdx') = NumInsts
    /\ \A I \in From..(NumInsts - 1) :
         IF InstIdx[I + 1] = UINT_MAX
         THEN OpcodeToSemaIdx'[I + 1] = UINT_MAX
         ELSE LaidOutAt(InstSemanticsArray', OpcodeToSemaIdx'[I + 1],
                        InstSemas[InstIdx[I + 1] + 1])
    /\ \A I, J \in From..(NumInsts - 1) :
         (I < J /\ InstIdx[I + 1] # UINT_MAX /\ InstIdx[J + 1] # UINT_MAX) =>
           OpcodeToSemaIdx'[I + 1]
             + Len(ProgramOf(InstSemas[InstIdx[I + 1] + 1]))
             < OpcodeToSemaIdx'[J + 1]

(* C4: after run, for every instruction identity, identity 0 included, the *)
(* entry of OpcodeToSemaIdx is ~0U when the instruction has no program and *)
(* otherwise the in-range position where exactly its program starts;       *)
(* programs of distinct instructions do not overlap.                       *)
IndexRightForEveryInstruction == [][IndexRightFrom(0)]_vars

(* The values of the integer-constant leaves flattenLeaf reads while the   *)
(* trees of a pattern are linearized.                                      *)
ConstantsOf(Trees) ==
  {TPN.LeafValue.int :
     TPN \in {N \in VisitedOf(Trees) :
                /\ getNamedOperand(N.Name) = 0
                /\ N.Leaf
                /\ "int" \in DOMAIN N.LeafValue}}

(* The operands of the GET_CONSTANT ops of a program.                      *)
ConstantOperands(Sem) ==
  {Sem[p].Operands[1] :
     p \in {q \in 1..Len(Sem) : Sem[q].Opcode = "DCINS::GET_CONSTANT"}}

(* C5: the constant pool is sequential and idempotent: CurConstantIdx is   *)
(* the number N of values of the pool, every constant the last instruction *)
(* read has an index in 1 .. N, never index 0, distinct constants have     *)
(* distinct indices, and the GET_CONSTANT ops of its program have as many  *)
(* operands as it read distinct constants.                                 *)
PoolIdempotentAndSequential ==
  LET C == Target.ConstantIdx
      N == MapSize(C)
  IN /\ Target.CurConstantIdx = N
     /\ Linearized =>
          LET Vs == ConstantsOf(Call.TP.Trees) IN
          /\ \A v \in Vs : MapCount(C, v) /\ MapAt(C, v) \in 1..N
          /\ \A v, w \in Vs : v # w => MapAt(C, v) # MapAt(C, w)
          /\ Cardinality(ConstantOperands(Call.L.Semantics)) = Cardinality(Vs)

(* C10: generation is aborted at the intern that would overflow the 16-bit *)
(* index: as long as generation runs the pool holds fewer than 2^16        *)
(* values, the counter has not wrapped (it counts them), and no constant   *)
(* the last instruction read has index 0.                                  *)
InternAbortsOnOverflow ==
  pc # "aborted" =>
    LET C == Target.ConstantIdx IN
    /\ MapSize(C) < UINT16_MOD
    /\ Target.CurConstantIdx <= MapSize(C)
    /\ Linearized => \A v \in ConstantsOf(Call.TP.Trees) : MapAt(C, v) # 0

(* The value node of a pattern that is a single set tree.                  *)
SingleSet(TP) == Len(TP.Trees) = 1 /\ TP.Trees[1].Operator = "set"
ValueOf(TP) == TP.Trees[1].Children[Len(TP.Trees[1].Children)]
TargetsOf(TP) == SubSeq(TP.Trees[1].Children, 1, Len(TP.Trees[1].Children) - 1)

(* The positions of the ops of Sem that are not writes of a set.           *)
NotPut(Sem) ==
  {p \in 1..Len(Sem) : Sem[p].Opcode \notin {"DCINS::PUT_RC", "DCINS::PUT_REG"}}

(* The op emitted for the value node of a single set tree: the last op     *)
(* that is not a write.                                                    *)
ValueOp(Sem) == Sem[CHOOSE p \in NotPut(Sem) : \A q \in NotPut(Sem) : q <= p]

(* The value node of the last call is an operation node whose operator has *)
(* an SDNodeEquiv entry.                                                   *)
EquivCall ==
  /\ Call.Inst # UINT_MAX
  /\ SingleSet(Call.TP)
  /\ getNamedOperand(ValueOf(Call.TP).Name) = 0
  /\ ~ValueOf(Call.TP).Leaf
  /\ ValueOf(Call.TP).Operator \in DOMAIN SDNodeEquiv

(* C6: equivalence rewriting reduces the arity or aborts: with T the       *)
(* node's number of types and C the canonical operator's number of         *)
(* results, T > C gives an op of exactly C types, T <= C a fatal error.    *)
EquivalenceReducesArityOrAborts ==
  EquivCall =>
    LET V == ValueOf(Call.TP)
        T == Len(V.Types)
        C == OperatorInfo[SDNodeEquiv[V.Operator]].NumResults
    IN /\ T <= C => Call.L.Fatal # ""
       /\ (T > C /\ Call.L.Fatal = "") =>
            Len(ValueOp(Call.L.Semantics).Types) = C
       /\ Call.L.Fatal = "" => Len(ValueOp(Call.L.Semantics).Types) < T

(* The number of times flattenSubtree reads the formal operand at position *)
(* Op of CGIOperands under TPN, and under the nodes k .. of a list.        *)
RECURSIVE Refs(_, _)
RECURSIVE RefsIn(_, _, _)
Refs(TPN, Op) ==
  IF getNamedOperand(TPN.Name) # 0
  THEN IF getNamedOperand(TPN.Name) = Op THEN 1 ELSE 0
  ELSE IF TPN.Leaf THEN 0
  ELSE RefsIn(TPN.Children, 1, Op)

RefsIn(Nodes, k, Op) ==
  IF k > Len(Nodes) THEN 0
  ELSE Refs(Nodes[k], Op) + RefsIn(Nodes, k + 1, Op)

(* The number of references to Op in the trees k .. of a pattern: the      *)
(* targets of a set and the children of implicit are not read.             *)
RECURSIVE RefsOf(_, _, _)
RefsOf(Trees, k, Op) ==
  IF k > Len(Trees) THEN 0
  ELSE (IF Trees[k].Operator = "implicit" THEN 0
        ELSE IF Trees[k].Operator = "set"
        THEN Refs(Trees[k].Children[Len(Trees[k].Children)], Op)
        ELSE Refs(Trees[k], Op))
       + RefsOf(Trees, k + 1, Op)

(* The positions (from 1) of the ops of Sem that read formal operand Op.   *)
Reads(Sem, Op) ==
  {p \in 1..Len(Sem) :
     /\ Sem[p].Opcode \in {"DCINS::GET_RC", "DCINS::GET_IMMEDIATE",
                           "DCINS::CUSTOM_OP"}
     /\ Sem[p].Operands[Len(Sem[p].Operands)] = CGIOperands[Op].MIOperandNo}

(* The results handed to the caller when the op at position p was added.   *)
ReturnedOf(L, p) ==
  L.Returned[CHOOSE e \in 1..Len(L.Returned) :
               L.Returned[e].SemaIdx = p - 1].R

(* Formal operand Op is a custom operand: an Operand that is not an        *)
(* immediate.                                                              *)
CustomOperand(Op) ==
  /\ CGIOperands[Op].Rec = "Operand"
  /\ CGIOperands[Op].OperandType # "OPERAND_IMMEDIATE"

(* A reference to formal operand Op.                                       *)
Reference(Op) ==
  LeafNode(CGIOperands[Op].Name,
           [def |-> CGIOperands[Op].RecName, class |-> CGIOperands[Op].Rec],
           <<"i32">>)

(* The operation node at the top of a one-tree pattern (the value of its   *)
(* set), whose op is the last op of the program that is not a write.       *)
TopNode(TP) ==
  IF TP.Trees[1].Operator = "set"
  THEN TP.Trees[1].Children[Len(TP.Trees[1].Children)]
  ELSE TP.Trees[1]

HasTopNode(TP) ==
  /\ Len(TP.Trees) = 1
  /\ TP.Trees[1].Operator # "implicit"
  /\ getNamedOperand(TopNode(TP).Name) = 0
  /\ ~TopNode(TP).Leaf

(* C7: custom-operand reads are memoized per instruction by operand name   *)
(* and nothing else is.  For a custom operand referenced k times: one      *)
(* CUSTOM_OP if k >= 1 and none otherwise, the memo holds exactly the      *)
(* referenced custom operands (so it was empty when the instruction        *)
(* started) with the value number of their op, an operation node hands     *)
(* that number to its op for every child that is such a reference, and one *)
(* more reference returns it and changes nothing.  For any other operand   *)
(* referenced k times: k GET_RC / GET_IMMEDIATE ops, which returned k      *)
(* distinct value numbers.                                                 *)
CustomOperandsMemoized ==
  Linearized =>
    LET L == Call.L
        Sem == L.Semantics
    IN
    /\ \A Op \in 1..Len(CGIOperands) :
         LET k == RefsOf(Call.TP.Trees, 1, Op)
             Info == CGIOperands[Op]
             Rd == Reads(Sem, Op)
         IN
         IF CustomOperand(Op)
         THEN /\ Cardinality(Rd) = IF k >= 1 THEN 1 ELSE 0
              /\ \A p \in Rd : Sem[p].Opcode = "DCINS::CUSTOM_OP"
              /\ (Info.Name \in DOMAIN L.OperandByName) <=> (k >= 1)
              /\ \A p \in Rd :
                   LET n == FirstResultOf(Sem, p - 1) IN
                   /\ L.OperandByName[Info.Name] = n
                   /\ ReturnedOf(L, p) = <<LSResult(n, "i32")>>
                   /\ flattenOperand(L, Reference(Op), Op)
                        = [L |-> L, R |-> <<LSResult(n, "i32")>>]
                   /\ HasTopNode(Call.TP) =>
                        LET V == TopNode(Call.TP)
                            NS == ValueOp(Sem)
                            Off == Len(NS.Operands) - Len(V.Children)
                        IN \A c \in 1..Len(V.Children) :
                             getNamedOperand(V.Children[c].Name) = Op
                               => NS.Operands[Off + c] = n
         ELSE /\ Cardinality(Rd) = k
              /\ \A p \in Rd :
                   Sem[p].Opcode = IF Info.Rec = "Operand"
                                   THEN "DCINS::GET_IMMEDIATE"
                                   ELSE "DCINS::GET_RC"
              /\ \A p, q \in Rd :
                   p # q => ReturnedOf(L, p)[1].DefNo # ReturnedOf(L, q)[1].DefNo
    /\ DOMAIN L.OperandByName
         \subseteq {CGIOperands[Op].Name : Op \in 1..Len(CGIOperands)}

(* A custom operand was referenced twice and read once.                    *)
CustomOperandReadTwice ==
  /\ Linearized
  /\ \E Op \in 1..Len(CGIOperands) :
       /\ CustomOperand(Op)
       /\ RefsOf(Call.TP.Trees, 1, Op) >= 2
       /\ Cardinality(Reads(Call.L.Semantics, Op)) = 1

(* InstIdx still names the programs of InstSemas (run has not replaced    *)
(* its entries by offsets).                                                *)
Constructing == pc \in {"ParseSemantics", "Patterns", "run"}

(* The program instruction I has in InstSemas.                             *)
SemaOf(I) == InstSemas[InstIdx[I + 1] + 1]

(* C8, as stated: no instruction named by a Semantics record, accepted or  *)
(* not, has a program derived from its own pattern.                        *)
OverriddenNeverFromOwnPattern ==
  Constructing =>
    \A k \in 1..Len(Instrs) :
      InstIdx[Instrs[k].Inst + 1] # UINT_MAX
        => SemaOf(Instrs[k].Inst).Pattern.Origin = "Semantics"

(* C8, amended: an instruction whose Semantics record was accepted keeps   *)
(* the program of its last accepted record through the second pass and     *)
(* never gets one derived from its own pattern; every program built from a *)
(* Semantics record was pushed before every program built from an          *)
(* instruction's own pattern.                                              *)
AcceptedOverrideKept ==
  Constructing =>
    /\ \A k \in 1..Len(Instrs) :
         Instrs[k].Accepted =>
           /\ InstIdx[Instrs[k].Inst + 1] # UINT_MAX
           /\ SemaOf(Instrs[k].Inst).Pattern.Origin = "Semantics"
           /\ \E j \in k..Len(Instrs) :
                /\ Instrs[j].Inst = Instrs[k].Inst
                /\ Instrs[j].Accepted
                /\ InstIdx[Instrs[k].Inst + 1] = Instrs[j].Idx
    /\ \A a, b \in 1..Len(InstSemas) :
         (a < b /\ InstSemas[a].Pattern.Origin = "Instruction")
           => InstSemas[b].Pattern.Origin = "Instruction"
    /\ pc = "ParseSemantics" =>
         \A a \in 1..Len(InstSemas) : InstSemas[a].Pattern.Origin = "Semantics"

(* The second pass is over, an accepted Semantics record exists and some   *)
(* instruction got a program from its own pattern.                         *)
OverrideKeptThroughSecondPass ==
  /\ pc = "run"
  /\ \E k \in 1..Len(Instrs) : Instrs[k].Accepted
  /\ \E a \in 1..Len(InstSemas) : InstSemas[a].Pattern.Origin = "Instruction"

(* The last call linearized a pattern that is a single set tree.           *)
SetCall == Call.Inst # UINT_MAX /\ SingleSet(Call.TP)

(* What flattenSubtree made of the value of that set.                      *)
ValueResults == flattenSubtree(LinearSemantics(Call.T), ValueOf(Call.TP))

RegisterTarget(TPN) == TPN.Leaf /\ TPN.LeafValue.class = "Register"

(* The registers of the targets From .. To of a list of targets.           *)
DefsOf(Ts, From, To) == [j \in 1..(To - From + 1) |-> Ts[From + j - 1].LeafValue.def]

(* The write op flattenSet emits for target TPN and result Res.            *)
WriteOf(TPN, Res) ==
  IF RegisterTarget(TPN)
  THEN [Opcode |-> "DCINS::PUT_REG", Types |-> <<>>,
        Operands |-> << <<Namespace, TPN.LeafValue.def>>, Res.DefNo >>]
  ELSE [Opcode |-> "DCINS::PUT_RC", Types |-> <<>>,
        Operands |-> << CGIOperands[getNamedOperand(TPN.Name)].MIOperandNo,
                        Res.DefNo >>]

(* flattenSet with D targets over a value that produced R results: the     *)
(* first min(D, R) targets get one write op each, with the result of the   *)
(* same position; the D - R trailing targets get no op, consume no result  *)
(* and are, in order, what flattenSet hands to computeImplicitDefs; an     *)
(* excess target that is not an explicit register is fatal.                *)
ExcessTargetsRecorded ==
  (/\ SetCall
   /\ Len(TargetsOf(Call.TP)) <= Len(ValueOf(Call.TP).Types)
   /\ ValueResults.L.Fatal = "") =>
    LET Ts == TargetsOf(Call.TP)
        D == Len(Ts)
        Val == ValueResults
        R == Len(Val.R)
        W == IF D < R THEN D ELSE R
        Sem == Call.L.Semantics
        Base == Len(Val.L.Semantics)
        Written == {j \in 1..W : RegisterTarget(Ts[j])}
    IN
    /\ (\E j \in (R + 1)..D : ~RegisterTarget(Ts[j])) => Call.L.Fatal # ""
    /\ Linearized =>
         /\ Len(Sem) = Base + W
         /\ SubSeq(Sem, 1, Base) = Val.L.Semantics
         /\ \A j \in 1..W : Sem[Base + j] = WriteOf(Ts[j], Val.R[j])
         /\ Call.L.CurDefNo = Val.L.CurDefNo
         /\ \A j \in (W + 1)..D : RegisterTarget(Ts[j])
         /\ Call.L.ImplicitDefs =
              FilterImplicitDefs(Call.CGI.ImplicitDefs \o DefsOf(Ts, W + 1, D),
                                 1, {getReg(Ts[j].LeafValue.def) : j \in Written},
                                 {}, <<>>)

(* The set of the scenario: the value is an operation node with two        *)
(* results whose operator has an equivalent with one result, the targets   *)
(* are two distinct explicit registers, and the instruction declares no    *)
(* implicit defs.                                                          *)
TwoRegistersOneResult ==
  /\ SetCall
  /\ LET V == ValueOf(Call.TP)
         Ts == TargetsOf(Call.TP)
     IN /\ getNamedOperand(V.Name) = 0
        /\ ~V.Leaf
        /\ V.Operator \in DOMAIN SDNodeEquiv
        /\ OperatorInfo[SDNodeEquiv[V.Operator]].NumResults = 1
        /\ Len(V.Types) = 2
        /\ \A k \in 1..2 : V.Types[k] # "isVoid"
        /\ Len(Ts) = 2
        /\ RegisterTarget(Ts[1]) /\ RegisterTarget(Ts[2])
        /\ Ts[1].LeafValue.def # Ts[2].LeafValue.def
  /\ Call.CGI.ImplicitDefs = <<>>

(* The program of the scenario: its only write is a PUT_REG of the first   *)
(* target, its last op, and the second target is the only implicit def.    *)
OnePutAndOneImplicitDef ==
  LET Sem == Call.L.Semantics
      Ts == TargetsOf(Call.TP)
  IN /\ {p \in 1..Len(Sem) :
           Sem[p].Opcode \in {"DCINS::PUT_RC", "DCINS::PUT_REG"}} = {Len(Sem)}
     /\ Sem[Len(Sem)].Opcode = "DCINS::PUT_REG"
     /\ Sem[Len(Sem)].Operands[1] = <<Namespace, Ts[1].LeafValue.def>>
     /\ Call.L.ImplicitDefs = <<Ts[2].LeafValue.def>>

(* An instruction whose final implicit defs are not empty while none of    *)
(* its ops produced a result is not accepted.                              *)
ImplicitDefWithoutProducerExcluded ==
  (/\ Linearized
   /\ Call.L.ImplicitDefs # <<>>
   /\ \A p \in 1..Len(Call.L.Semantics) :
        NumNonVoid(Call.L.Semantics[p].Types) = 0)
    => (~Call.Accepted /\ InstIdx[Call.Inst + 1] = UINT_MAX)

RECURSIVE IntLeaves(_)
RECURSIVE IntLeavesIn(_, _)
IntLeaves(TPN) ==
  IF getNamedOperand(TPN.Name) # 0 THEN <<>>
  ELSE IF TPN.Leaf
  THEN IF "int" \in DOMAIN TPN.LeafValue THEN <<TPN.LeafValue.int>> ELSE <<>>
  ELSE IntLeavesIn(TPN.Children, 1)

IntLeavesIn(Nodes, k) ==
  IF k > Len(Nodes) THEN <<>>
  ELSE IntLeaves(Nodes[k]) \o IntLeavesIn(Nodes, k + 1)

(* The same for the trees k .. of a pattern: the targets of a set and the  *)
(* children of implicit are not read.                                      *)
RECURSIVE IntLeavesOf(_, _)
IntLeavesOf(Trees, k) ==
  IF k > Len(Trees) THEN <<>>
  ELSE (IF Trees[k].Operator = "implicit" THEN <<>>
        ELSE IF Trees[k].Operator = "set"
        THEN IntLeaves(Trees[k].Children[Len(Trees[k].Children)])
        ELSE IntLeaves(Trees[k]))
       \o IntLeavesOf(Trees, k + 1)

(* The operands of the GET_CONSTANT ops of a program, in program order.    *)
IsGetConstant(NS) == NS.Opcode = "DCINS::GET_CONSTANT"

ConstantReads(Sem) ==
  LET S == SelectSeq(Sem, IsGetConstant)
  IN [j \in 1..Len(S) |-> S[j].Operands[1]]

(* The index of v in the pool.                                             *)
PoolIndex(v) == MapAt(Target.ConstantIdx, v)

(* Every integer-constant leaf of the pattern Trees has its GET_CONSTANT   *)
(* op in Sem, and the operand of the j-th of them is the pool index of the *)
(* value of the j-th leaf less Shift.                                      *)
ConstantReadsAre(Sem, Trees, Shift) ==
  LET Vs == IntLeavesOf(Trees, 1)
      Ops == ConstantReads(Sem)
  IN /\ Len(Ops) = Len(Vs)
     /\ \A j \in 1..Len(Vs) : Ops[j] = utostr(PoolIndex(Vs[j]) - Shift)

(* Position Pos (from 0) of the emitted ConstantArray holds v.             *)
ConstantArrayHolds(Pos, v) ==
  /\ Pos \in 0..(Len(ConstantArray) - 1)
  /\ ConstantArray[Pos + 1] = v

(* C11, as stated: the operand of the GET_CONSTANT op of an                *)
(* integer-constant leaf is the 1-based index of the leaf's value in the   *)
(* pool: the first constant ever interned is referenced by operand 1, and  *)
(* position operand - 1 of ConstantArray holds the value.                  *)
ConstantOperandIsPoolIndex ==
  /\ Linearized =>
       /\ ConstantReadsAre(Call.L.Semantics, Call.TP.Trees, 0)
       /\ (MapSize(Call.T.ConstantIdx) = 0 /\ ConstantReads(Call.L.Semantics) # <<>>)
            => ConstantReads(Call.L.Semantics)[1] = 1
  /\ pc = "done" =>
       \A a \in 1..Len(InstSemas) :
         LET Vs == IntLeavesOf(InstSemas[a].Pattern.Trees, 1)
             Ops == ConstantReads(InstSemas[a].Semantics)
         IN \A j \in 1..Len(Vs) : ConstantArrayHolds(Ops[j] - 1, Vs[j])

(* C11, amended: the operand of the GET_CONSTANT op of an integer-constant *)
(* leaf is the pool index of the leaf's value less one, the position of    *)
(* the value in ConstantArray: the first constant ever interned is         *)
(* referenced by operand 0, and position operand of ConstantArray holds    *)
(* the value.                                                              *)
ConstantOperandIsPoolPosition ==
  /\ Linearized =>
       /\ ConstantReadsAre(Call.L.Semantics, Call.TP.Trees, 1)
       /\ (MapSize(Call.T.ConstantIdx) = 0 /\ ConstantReads(Call.L.Semantics) # <<>>)
            => ConstantReads(Call.L.Semantics)[1] = 0
  /\ pc = "done" =>
       \A a \in 1..Len(InstSemas) :
         LET Vs == IntLeavesOf(InstSemas[a].Pattern.Trees, 1)
             Ops == ConstantReads(InstSemas[a].Semantics)
         IN /\ Len(Ops) = Len(Vs)
            /\ \A j \in 1..Len(Vs) : ConstantArrayHolds(Ops[j], Vs[j])

(* The tables were emitted and an accepted program reads the second        *)
(* constant of the pool.                                                   *)
SecondConstantRead ==
  /\ pc = "done"
  /\ \E a \in 1..Len(InstSemas) :
       \E j \in 1..Len(ConstantReads(InstSemas[a].Semantics)) :
         ConstantReads(InstSemas[a].Semantics)[j] = 1

(* The positions of the writes of a program.                               *)
Puts(Sem) ==
  {p \in 1..Len(Sem) : Sem[p].Opcode \in {"DCINS::PUT_RC", "DCINS::PUT_REG"}}

(* The value of a set is linearized completely before any write: every op  *)
(* that is not a write stands before every write.                          *)
ValueBeforeWrites(Sem) == \A p \in NotPut(Sem), q \in Puts(Sem) : p < q

(* The writes of a single set tree are those of its first targets, in      *)
(* target order, the j-th write naming the j-th result of the op of the    *)
(* value (the last op before the writes), as many as there are such        *)
(* results and targets.                                                    *)
WritesBindResultsInOrder(Sem, Ts) ==
  LET Base == Cardinality(NotPut(Sem))
      First == FirstResultOf(Sem, Base - 1)
      R == NumNonVoid(Sem[Base].Types)
      W == IF Len(Ts) < R THEN Len(Ts) ELSE R
  IN /\ Len(Sem) = Base + W
     /\ \A j \in 1..W :
          Sem[Base + j] = WriteOf(Ts[j], [DefNo |-> First + (j - 1)])

(* The writes produce no results and do not advance the counter of value   *)
(* numbers.                                                                *)
WritesProduceNothing(L) ==
  /\ \A q \in Puts(L.Semantics) : L.Semantics[q].Types = <<>>
  /\ L.CurDefNo = FirstResultOf(L.Semantics, Cardinality(NotPut(L.Semantics)))

(* The pattern (set GPR:$dst, (add GPR:$a, GPR:$b)), without equivalence,  *)
(* predicate or annotation, and its program.                               *)
AddPattern ==
  <<SetNode(<<Dst>>, OpNode(Plain("add", <<"i32">>), <<OpA, OpB>>))>>

AddProgram ==
  << [Opcode |-> "DCINS::GET_RC", Types |-> <<"i32">>, Operands |-> <<1>>],
     [Opcode |-> "DCINS::GET_RC", Types |-> <<"i32">>, Operands |-> <<2>>],
     [Opcode |-> "ISD::ADD", Types |-> <<"i32">>, Operands |-> <<0, 1>>],
     [Opcode |-> "DCINS::PUT_RC", Types |-> <<>>, Operands |-> <<0, 2>>] >>

(* C12: flattenSet linearizes the value of a set completely before it      *)
(* emits a write, then emits the writes in target order, the i-th target   *)
(* bound to the i-th result the value produced; the writes produce no      *)
(* result and leave the counter of value numbers alone; the program of     *)
(* (set GPR:$dst, (add GPR:$a, GPR:$b)) is exactly GET_RC $a, GET_RC $b,   *)
(* add of the values 0 and 1, PUT_RC of value 2 to $dst.                   *)
SetWritesFollowValueInOrder ==
  (SetCall /\ Linearized) =>
    /\ ValueBeforeWrites(Call.L.Semantics)
    /\ WritesBindResultsInOrder(Call.L.Semantics, TargetsOf(Call.TP))
    /\ WritesProduceNothing(Call.L)
    /\ Call.TP.Trees = AddPattern => Call.L.Semantics = AddProgram

(* The linearizer of the last call when computeImplicitDefs is called:     *)
(* after the loop over the trees of the pattern.                           *)
BeforeImplicitDefs == flattenTrees(LinearSemantics(Call.T), Call.TP.Trees, 1)

(* The elements of a sequence as a set.                                    *)
Range(S) == {S[k] : k \in 1..Len(S)}

(* The elements of All at the positions of Keep, in the order of All.      *)
Restrict(All, Keep) ==
  [n \in 1..Cardinality(Keep) |->
     All[CHOOSE k \in Keep : Cardinality({j \in Keep : j < k}) = n - 1]]

(* Declared \o Discovered without the registers of Explicit, every         *)
(* remaining register at its first occurrence only.                        *)
FirstOccurrencesOutside(Declared, Discovered, Explicit) ==
  LET All == Declared \o Discovered
  IN Restrict(All, {k \in 1..Len(All) :
                      /\ All[k] \notin Explicit
                      /\ \A j \in 1..(k - 1) : All[j] # All[k]})

(* C13: computeImplicitDefs leaves as implicit defs the declared registers *)
(* followed by the discovered ones, without those of the explicit defs,    *)
(* each remaining register at its first occurrence only, in that order;    *)
(* the list has no duplicate and no explicit def, and nothing else of the  *)
(* program is changed.                                                     *)
ImplicitDefsDeclaredThenDiscovered ==
  Linearized =>
    LET Pre == BeforeImplicitDefs
        Defs == Call.L.ImplicitDefs
    IN /\ Defs = FirstOccurrencesOutside(Call.CGI.ImplicitDefs,
                                         Pre.ImplicitDefs,
                                         Range(Pre.ExplicitDefs))
       /\ \A j, k \in 1..Len(Defs) : j # k => Defs[j] # Defs[k]
       /\ Range(Defs) \cap Range(Call.L.ExplicitDefs) = {}
       /\ Call.L = [Pre EXCEPT !.ImplicitDefs = Defs]

(* computeImplicitDefs was given declared and discovered implicit defs and *)
(* explicit defs, and dropped a register that is an explicit def and       *)
(* another one that it had already kept.                                   *)
ExplicitAndDuplicateDropped ==
  /\ Linearized
  /\ Call.CGI.ImplicitDefs # <<>>
  /\ BeforeImplicitDefs.ImplicitDefs # <<>>
  /\ \E R \in Range(Call.CGI.ImplicitDefs) :
       R \in Range(BeforeImplicitDefs.ExplicitDefs)
  /\ \E R \in Range(Call.CGI.ImplicitDefs) :
       /\ R \in Range(BeforeImplicitDefs.ImplicitDefs)
       /\ R \in Range(Call.L.ImplicitDefs)

(* The positions (from 0) of the ops of Sem that have at least one result  *)
(* type that is not void.                                                  *)
Producers(Sem) == {p \in 0..(Len(Sem) - 1) : NumNonVoid(Sem[p + 1].Types) > 0}

LastProducer(Sem) == CHOOSE p \in Producers(Sem) : \A q \in Producers(Sem) : q <= p

(* LastDefSemaIdx and LastDefNo name the last op that produced a result    *)
(* and the value number of its first result, and are ~0U exactly when no   *)
(* op produced a result.                                                   *)
LastDefIsLastProducer(L) ==
  IF Producers(L.Semantics) = {}
  THEN L.LastDefSemaIdx = UINT_MAX /\ L.LastDefNo = UINT_MAX
  ELSE /\ L.LastDefSemaIdx = LastProducer(L.Semantics)
       /\ L.LastDefNo = FirstResultOf(L.Semantics, LastProducer(L.Semantics))
       /\ L.LastDefSemaIdx # UINT_MAX
       /\ L.LastDefNo # UINT_MAX

(* LastDefNo is the number the consumers of the first result of the last   *)
(* producing op are given.                                                 *)
LastDefNoGivenToConsumers(L) ==
  Producers(L.Semantics) # {} =>
    L.LastDefNo = ReturnedOf(L, LastProducer(L.Semantics) + 1)[1].DefNo

(* The two assertions of run hold for the program of the last call.        *)
RunAssertionsHold(L) ==
  /\ Len(L.ImplicitDefs) <= 1
  /\ L.ImplicitDefs # <<>> => L.LastDefNo # UINT_MAX

(* C14: LastDefSemaIdx is the position of the last op with a result type   *)
(* that is not void, LastDefNo is the value number of the first result of  *)
(* that op, the number its consumers are given; both are ~0U exactly when  *)
(* no op produced a result; for an accepted program with an implicit def   *)
(* the two assertions of run hold.                                         *)
LastDefTracksLastProducer ==
  Linearized =>
    /\ LastDefIsLastProducer(Call.L)
    /\ LastDefNoGivenToConsumers(Call.L)
    /\ Call.Accepted => RunAssertionsHold(Call.L)

(* The predicate functions flattenSDNode records while the trees of a      *)
(* pattern are linearized: the last one of every visited SDNode that has   *)
(* predicates.                                                             *)
PredicatesOf(Trees) ==
  {N.Preds[Len(N.Preds)] :
     N \in {M \in VisitedOf(Trees) :
              /\ getNamedOperand(M.Name) = 0
              /\ ~M.Leaf
              /\ OperatorInfo[M.Operator].class = "SDNode"
              /\ M.Preds # <<>>}}

(* A step that calls parseInstSemantics: for a Semantics record, or in the *)
(* second pass of the constructor for instruction i.                       *)
Parsing ==
  \/ Len(Instrs') > Len(Instrs)
  \/ /\ pc = "Patterns"
     /\ i' = i + 1
     /\ Call'.Inst = i
     /\ Call'.TP.Origin = "Instruction"

(* A step of parseInstSemantics that ran to its end and ignored the        *)
(* program it had built.                                                   *)
Rejecting == Parsing /\ Call'.L.Fatal = "" /\ ~Call'.Accepted

(* No step takes a constant out of the pool or changes its index, nor      *)
(* takes a predicate out of EncounteredPredicates or changes its place.    *)
SharedStateOnlyGrows ==
  /\ \A v \in MapKeys(Target.ConstantIdx) :
       /\ MapCount(Target'.ConstantIdx, v)
       /\ MapAt(Target'.ConstantIdx, v) = MapAt(Target.ConstantIdx, v)
  /\ Len(Target.EncounteredPredicates) <= Len(Target'.EncounteredPredicates)
  /\ SubSeq(Target'.EncounteredPredicates, 1, Len(Target.EncounteredPredicates))
       = Target.EncounteredPredicates

(* The constants and predicates of a rejected instruction are in the       *)
(* shared state after the call, the constants with the indices its         *)
(* GET_CONSTANT ops were given, and the new ones among them have advanced  *)
(* CurConstantIdx for the instructions that follow; InstIdx and InstSemas  *)
(* are as before the call.                                                 *)
RejectedLeavesItsConstants ==
  LET Trees == Call'.TP.Trees
      Vs == IntLeavesOf(Trees, 1)
      Ops == ConstantReads(Call'.L.Semantics)
      New == ConstantsOf(Trees) \ MapKeys(Target.ConstantIdx)
  IN /\ InstIdx' = InstIdx
     /\ InstSemas' = InstSemas
     /\ Len(Ops) = Len(Vs)
     /\ \A j \in 1..Len(Vs) :
          /\ MapCount(Target'.ConstantIdx, Vs[j])
          /\ Ops[j] = utostr(MapAt(Target'.ConstantIdx, Vs[j]) - 1)
     /\ \A v \in New : MapAt(Target'.ConstantIdx, v) > Target.CurConstantIdx
     /\ Target'.CurConstantIdx = Target.CurConstantIdx + Cardinality(New)
     /\ PredicatesOf(Trees) \subseteq Range(Target'.EncounteredPredicates)

(* run emits every constant of the pool at the place of its index.         *)
EveryConstantEmitted ==
  /\ Len(ConstantArray') = MapSize(Target.ConstantIdx)
  /\ \A v \in MapKeys(Target.ConstantIdx) :
       ConstantArray'[MapAt(Target.ConstantIdx, v)] = v

RejectionKeepsStep ==
  /\ SharedStateOnlyGrows
  /\ Rejecting => RejectedLeavesItsConstants
  /\ (pc = "run" /\ pc' = "done") => EveryConstantEmitted

(* C15: rejecting an instruction does not roll back the shared state: the  *)
(* constants interned and the predicates recorded while a rejected         *)
(* instruction was linearized stay where they were put, with their         *)
(* indices, they are in the emitted ConstantArray, and they shift the      *)
(* indices of the constants first seen later; only the program and the     *)
(* index entry of the instruction are dropped.                             *)
RejectionKeepsSharedState == [][RejectionKeepsStep]_vars

====
